---- MODULE Spec2Model ----
(***************************************************************************)
(* panoptes/pocs-camera: shutter control, gphoto2 tether management and    *)
(* observation sequencing, modelled from the prototypes of the repository: *)
(*   "gphoto2"  src/camera/gphoto2.py   Camera (remote-release shutter)    *)
(*   "gpio"     src/camera/gpio.py      Camera (GPIO pin, extends gphoto2) *)
(*   "camera"   src/camera.py           Camera (GPIO pin)                  *)
(*   "hardware" src/hardware/gpio_shutter_camera.py  GpioShutterCamera     *)
(*   "worker"   src/worker.py           celery tasks of one camera         *)
(*   "main"     src/main.py             HTTP service, take_observation     *)
(*   "command"  the gphoto2 command executors taken alone: run_command of  *)
(*              gphoto2.py / camera.py, gphoto2_command of worker.py and   *)
(*              of main.py, as functions of the subprocess's outcome       *)
(*   "release"  release_shutter of main.py taken alone: one background     *)
(*              task, called with the exptime of its observation           *)
(*   "take_pic" src/gpio.py, the service whose POST /take-pics pulses pin  *)
(*              17 num_exposures times                                     *)
(*   "build"    _build_gphoto2_command of main.py as POST /gphoto calls    *)
(*              it, and of gphoto2.py / worker.py as the deletion of the   *)
(*              camera's files calls it; one call                          *)
(* One run of the model is one run of one of these programs; `variant'     *)
(* says which.  Time is counted in ticks (one tick = one second).          *)
(* A Camera object has one caller; the worker runs NumTasks celery tasks   *)
(* at a time; main.py handles NumRequests requests, which interleave at    *)
(* the handler's awaits, and runs each request's background tasks after    *)
(* its response.  main.py awaits a name `sleep' that it never binds: the   *)
(* await either raises (SleepRaise) or, where a deployment binds the name  *)
(* to asyncio.sleep, suspends and resumes (SleepDone).                     *)
(***************************************************************************)
EXTENDS Integers, Sequences, FiniteSets, TLC

\* ---------------------------------------------------------------- bounds
\* longest exposure time handed to take_picture / release_shutter, in ticks
MaxExp == 2
\* subprocesses (gphoto2 --capture-tethered) spawned in one run
MaxProcs == 2
\* celery tasks the worker runs at the same time (its concurrency)
NumTasks == 2
\* HTTP requests main.py handles at the same time
NumRequests == 2
\* largest Observation.num_exposures
MaxNumExp == 1
\* largest num_exposures handed to take_sequence
MaxCount == 2
\* longest argument string of a gphoto2 command, in tokens
MaxArgLen == 2
\* longest argument list of a gphoto2 command
MaxArgs == 2
\* take_pic: the value of pic_num up to which its loop is followed
MaxPicNum == 3
\* longest list of durations given as Observation.exptime
MaxDurations == 2
\* longest stdout of a gphoto2 command, in tokens
MaxOut == 4

\* ------------------------------------------------------ program constants
CLOSED == 0
OPEN == 1
OFF == 0
ON == 1
\* the absent process handle / the absent timer (Python's None)
None == 0
NoTimer == -1
LOW == 0
HIGH == 1
\* the camera's shutter pin: the first of main.py's Settings.gpio_pins; the
\* Camera objects and the worker are configured with one pin
CamPin == 17
OtherPin == 18
\* Settings.gpio_pins, in the order the handlers walk them
PinSeq == <<CamPin, OtherPin>>
Pins == {PinSeq[i] : i \in 1..Len(PinSeq)}

LibVariants == {"gphoto2", "gpio", "camera", "hardware"}
Variants == LibVariants \cup {"worker", "main", "command", "release",
                                 "take_pic", "build"}
Tasks == 1..NumTasks
Requests == 1..NumRequests
ProcIds == 1..MaxProcs
ExpTimes == 0..MaxExp
\* subprocess.run of a gphoto2 command: completed with returncode >= 0,
\* completed with a negative returncode (killed by a signal), timed out, or
\* not started because shutil.which('gphoto2') found no binary
RunOutcomes == {"ok", "failed", "timeout", "notfound"}
\* Popen of the tether: started, failed in the OS, or no binary found
PopenOutcomes == {"ok", "fail", "notfound"}

\* the exception a subprocess.run / Popen outcome raises ("none": it returns)
Raised(o) ==
    CASE o = "timeout" -> "TimeoutExpired"
      [] o = "notfound" -> "TypeError"
      [] o = "fail" -> "PopenError"
      [] OTHER -> "none"

\* Observation.exptime: a single duration or a list of durations
ExpTimeValues ==
    [kind : {"float"}, value : 1..MaxExp]
    \cup [kind : {"list"},
          value : UNION {[1..n -> 1..MaxExp] : n \in 1..MaxDurations}]

\* Exposure.num_exposures of a POST /take-pics: any integer
NumExposures == (0 - 1)..MaxCount

\* the text of command arguments: words and the blank between them
Space == " "
Word == "--auto-detect"
ArgTokens == {Word, Space}
ArgTexts == UNION {[1..n -> ArgTokens] : n \in 0..MaxArgLen}

\* the arguments that delete every file of the camera
DeleteAll == "--delete-all-files"
Recurse == "--recurse"
DeleteText == <<DeleteAll, Space, Recurse>>

\* python values that end up in a command line: a str, None, and the tuple
\* (None,) that is the default of GphotoCommand.port
Str(text) == [kind |-> "str", value |-> text]
PyNone == [kind |-> "None", value |-> <<>>]
NoneTuple == [kind |-> "tuple", value |-> <<>>]

\* the strings of an argument list: one word, two words with a blank
\* between them, the empty string
ArgElements == {<<Word>>, <<Word, Space, Word>>, <<>>}

\* GphotoCommand.arguments: a list of strings, or one string
Arguments ==
    [kind : {"str"}, value : ArgTexts]
    \cup [kind : {"list"},
          value : UNION {[1..n -> ArgElements] : n \in 0..MaxArgs}]

\* what the request says about the port: nothing, null, or a port
PortFields == {"omitted", "null", "usb:001,002"}

\* the executors of a gphoto2 command
Impls == {"run_command", "worker", "main"}
\* how subprocess.run ends: shutil.which found no gphoto2 (the argument list
\* starts with None and no process is spawned), the timeout expires (the
\* child is killed), or the child exits
Runs == {"notfound", "timeout", "exit"}
\* Popen.returncode: -N for a child killed by signal N, else its exit status
ReturnCodes == {-9, 0, 1}
\* the text of stdout, as a sequence of tokens: the property marker, the
\* line break and two other pieces of text
Marker == "Current: "
NL == "\n"
Tokens == {Marker, NL, "42", "Label"}
Texts == UNION {[1..n -> Tokens] : n \in 0..MaxOut}

VARIABLES
    variant,        \* which program runs
    gpio,           \* Pins -> level of the pin
    release,        \* the camera's eosremoterelease setting
    procs,          \* ProcIds -> "unused" | "live" | "dead"
    pc,             \* position of the (single) caller of the Camera object
    shutter,        \* Camera._shutter_state
    exposure_timer, \* Camera.exposure_timer: NoTimer or ticks left
    tether_process, \* Camera.tether_process: None or a process id
    writes,         \* hardware writes issued by the current / last call
    seq,            \* take_sequence, while the current / last call is one:
                    \* its arguments, its loop index and its sleeps so far
    result,         \* how the last call ended
    camera_is_tethered, \* worker.py: app_settings.camera.is_tethered
    process,        \* worker.py: app_settings.process
    task,           \* worker.py: Tasks -> the celery task running in the slot
    is_observing,   \* main.py: app_settings.is_observing
    processes,      \* main.py: app_settings.processes[cam_id], one camera
    req,            \* main.py: Requests -> the request being handled
    command,        \* the last gphoto2 command: its executor and inputs
    command_output, \* what the last gphoto2 command returned
    stop,           \* the current / last call being stop_tether: how its
                    \* wait for the subprocess ended, the kill()s issued
    exposure,       \* main.py release_shutter: its exptime argument, the
                    \* exposure's index, what it handed to time.sleep
    pic,            \* src/gpio.py take_pic: its position, num_exposures,
                    \* pic_num, the HIGH / LOW cycles of the call so far,
                    \* the length of settings.processes
    claims,         \* per pin, how many times the program has claimed the
                    \* line / set it to OUTPUT
    full_command    \* main.py _build_gphoto2_command: the request's port
                    \* field and arguments, the command line built

camVars == <<pc, shutter, exposure_timer, tether_process, writes, seq>>
wrkVars == <<camera_is_tethered, process, task>>
mainVars == <<is_observing, processes, req>>
cmdVars == <<command, command_output>>
restVars == <<exposure, pic, claims, full_command>>
vars == <<variant, gpio, release, procs, result, camVars, wrkVars, mainVars,
          cmdVars, restVars, stop>>

\* no command has run yet / a call that returned nothing (it raised)
NoCommand == [impl |-> "none", return_property |-> FALSE, run |-> "exit",
              returncode |-> 0, stdout |-> <<>>]
NoOutput == [returned |-> FALSE, success |-> FALSE, returncode |-> 0,
             output |-> [kind |-> "none", value |-> <<>>]]

\* the current / last call is not a stop_tether
NoStop == [wait |-> "none", kills |-> 0]

\* the pins the program v drives
UsedPins(v) ==
    CASE v = "gphoto2" -> {}
      [] v \in {"main", "release"} -> Pins
      [] OTHER -> {CamPin}

\* the claims made while the program v is set up: Gpio.__init__ claims its
\* pin with gpio_claim_output, the services call set_mode(pin, OUTPUT) once
\* per configured pin; GpioShutterCamera.__init__ runs Camera.__init__ of
\* camera.py, which makes a Gpio for the pin, and then makes another
Constructed(v) ==
    [p \in Pins |-> IF p \notin UsedPins(v) THEN 0
                    ELSE IF v = "hardware" THEN 2
                    ELSE 1]

\* no command line has been built
NoFullCommand == [built |-> FALSE, caller |-> "none", port |-> "omitted",
                  arguments |-> Str(<<>>), argv |-> <<>>]

\* no take_pic is running
NoPic == [pc |-> "idle", num_exposures |-> 0, pic_num |-> 0, cycles |-> 0,
          tethers |-> 0]

\* no release_shutter task has run
NoExposure == [pc |-> "none", exptime |-> [kind |-> "float", value |-> 0],
               i |-> 0, slept |-> [kind |-> "float", value |-> 0]]

\* no take_sequence has been called
NoSequence == [exptime |-> 0, num_exposures |-> 0, pic_num |-> 0,
               sleeps |-> 0]

IdleTask == [pc |-> "idle", timer |-> 0, w |-> <<>>]
IdleReq == [pc |-> "idle", use_tether |-> FALSE, num_exposures |-> 0,
            pic_num |-> 1, tasks |-> <<>>, exposing |-> FALSE]

\* ---------------------------------------------------------------- helpers
Live == {p \in ProcIds : procs[p] = "live"}
Unused == {p \in ProcIds : procs[p] = "unused"}
NewProc == CHOOSE p \in Unused : \A q \in Unused : p <= q

\* Popen.poll() is None
poll_is_None(p) == procs[p] = "live"

\* CountdownTimer.expired() is False
TimerRunning(t) == t # NoTimer /\ t > 0

is_tethered == tether_process # None /\ poll_is_None(tether_process)

\* is_exposing with the timer value t (take_picture sets the timer first)
is_exposing_with(t) ==
    IF variant = "gpio" THEN gpio[CamPin] = ON ELSE TimerRunning(t)

is_exposing == is_exposing_with(exposure_timer)

shutter_state == IF variant = "gphoto2" THEN shutter ELSE gpio[CamPin]

\* A call ends: what it was, the exception it raised ("none": it returned),
\* whether it repeats the call before it (the same operation, which
\* returned), and a bit that flips with every call that ends.
Return(op, e) ==
    result' = [op |-> op, err |-> e, n |-> 1 - result.n,
               rep |-> (result.op = op /\ result.err = "none")]

\* ------------------------------------------------------------ open / close
\* open_shutter as a function of the state, the timer value t and the
\* outcome o of the gphoto2 command: the state it leaves, the writes it
\* issues and the exception it raises ("none": it returns).
open_shutter(t, o) ==
    IF variant = "gphoto2"
    THEN IF is_tethered \/ is_exposing_with(t)
         THEN [shutter |-> shutter, release |-> release, gpio |-> gpio,
               w |-> <<>>, err |-> "RuntimeError"]
         ELSE [shutter |-> OPEN,
               release |-> IF o = "ok" THEN "Immediate" ELSE release,
               gpio |-> gpio,
               w |-> IF o = "notfound" THEN <<>> ELSE <<"Immediate">>,
               err |-> Raised(o)]
    ELSE [shutter |-> shutter, release |-> release,
          gpio |-> [gpio EXCEPT ![CamPin] = ON],
          w |-> <<ON>>, err |-> "none"]

\* close_shutter written with Gpio.toggle() in place of Gpio.off()
close_shutter_toggle(o) ==
    IF variant = "gphoto2"
    THEN [shutter |-> IF is_tethered \/ Raised(o) # "none" THEN shutter
                      ELSE CLOSED,
          release |-> IF is_tethered \/ o # "ok" THEN release ELSE "Off",
          gpio |-> gpio,
          w |-> IF is_tethered \/ o = "notfound" THEN <<>> ELSE <<"Off">>,
          err |-> IF is_tethered THEN "RuntimeError" ELSE Raised(o)]
    ELSE [shutter |-> shutter, release |-> release,
          gpio |-> [gpio EXCEPT ![CamPin] = 1 - @],
          w |-> <<1 - gpio[CamPin]>>, err |-> "none"]

\* close_shutter without its last statement (_shutter_state = CLOSED; the
\* pin write of Gpio.off())
close_shutter_no_assign(o) ==
    IF variant = "gphoto2"
    THEN IF is_tethered
         THEN [shutter |-> shutter, release |-> release, gpio |-> gpio,
               w |-> <<>>, err |-> "RuntimeError"]
         ELSE [shutter |-> shutter,
               release |-> IF o = "ok" THEN "Off" ELSE release,
               gpio |-> gpio,
               w |-> IF o = "notfound" THEN <<>> ELSE <<"Off">>,
               err |-> Raised(o)]
    ELSE [shutter |-> shutter, release |-> release, gpio |-> gpio,
          w |-> <<OFF>>, err |-> "none"]

close_shutter(o) ==
    IF variant = "gphoto2"
    THEN IF is_tethered
         THEN [shutter |-> shutter, release |-> release, gpio |-> gpio,
               w |-> <<>>, err |-> "RuntimeError"]
         ELSE [shutter |-> IF Raised(o) # "none" THEN shutter ELSE CLOSED,
               release |-> IF o = "ok" THEN "Off" ELSE release,
               gpio |-> gpio,
               w |-> IF o = "notfound" THEN <<>> ELSE <<"Off">>,
               err |-> Raised(o)]
    ELSE [shutter |-> shutter, release |-> release,
          gpio |-> [gpio EXCEPT ![CamPin] = OFF],
          w |-> <<OFF>>, err |-> "none"]

Apply(r) ==
    /\ shutter' = r.shutter
    /\ release' = r.release
    /\ gpio' = r.gpio

\* ------------------------------------------------------------------- Init
Init ==
    /\ variant \in Variants
    /\ gpio = [p \in Pins |-> OFF]
    /\ release = "Off"
    /\ procs = [p \in ProcIds |-> "unused"]
    /\ pc = "idle"
    /\ shutter = CLOSED
    /\ exposure_timer = NoTimer
    /\ tether_process = None
    /\ writes = <<>>
    /\ seq = NoSequence
    /\ result = [op |-> "init", err |-> "none", n |-> 0, rep |-> FALSE]
    /\ camera_is_tethered = FALSE
    /\ process = None
    /\ task = [t \in Tasks |-> IdleTask]
    /\ is_observing = FALSE
    /\ processes = None
    /\ req = [r \in Requests |-> IdleReq]
    /\ command = NoCommand
    /\ command_output = NoOutput
    /\ exposure = NoExposure
    /\ stop = NoStop
    /\ pic = NoPic
    /\ claims = Constructed(variant)
    /\ full_command = NoFullCommand

\* ------------------------------------------- Camera objects (one caller)
OpenShutter(o) ==
    /\ variant \in LibVariants
    /\ pc = "idle"
    /\ LET r == open_shutter(exposure_timer, o) IN
        /\ Apply(r)
        /\ writes' = r.w
        /\ Return("open_shutter", r.err)
    /\ seq' = NoSequence
    /\ UNCHANGED <<variant, procs, pc, exposure_timer, tether_process>>
    /\ UNCHANGED <<wrkVars, mainVars>>
    /\ stop' = NoStop
    /\ UNCHANGED <<cmdVars, restVars>>

CloseShutter(o) ==
    /\ variant \in LibVariants
    /\ pc = "idle"
    /\ LET r == close_shutter(o) IN
        /\ Apply(r)
        /\ writes' = r.w
        /\ Return("close_shutter", r.err)
    /\ seq' = NoSequence
    /\ UNCHANGED <<variant, procs, pc, exposure_timer, tether_process>>
    /\ UNCHANGED <<wrkVars, mainVars>>
    /\ stop' = NoStop
    /\ UNCHANGED <<cmdVars, restVars>>

\* take_picture up to its sleep: the timer is set, then the shutter opened
TakePicture(e, o) ==
    /\ variant \in LibVariants
    /\ pc = "idle"
    /\ LET t == IF variant = "gpio" THEN exposure_timer ELSE e
           r == open_shutter(t, o)
       IN
        /\ exposure_timer' = t
        /\ Apply(r)
        /\ writes' = r.w
        /\ IF r.err = "none"
           THEN pc' = "exposing" /\ UNCHANGED result
           ELSE pc' = "idle" /\ Return("take_picture", r.err)
    /\ seq' = NoSequence
    /\ UNCHANGED <<variant, procs, tether_process>>
    /\ UNCHANGED <<wrkVars, mainVars>>
    /\ stop' = NoStop
    /\ UNCHANGED <<cmdVars, restVars>>

\* sleep(exptime) returns: the timer has run out; close_shutter, timer reset
TakePictureEnd(o) ==
    /\ pc = "exposing"
    /\ LET r == close_shutter(o) IN
        /\ Apply(r)
        /\ writes' = writes \o r.w
        /\ exposure_timer' =
             IF r.err = "none" \/ exposure_timer = NoTimer THEN NoTimer ELSE 0
        /\ Return("take_picture", r.err)
    /\ pc' = "idle"
    /\ UNCHANGED <<variant, procs, tether_process, seq>>
    /\ UNCHANGED <<wrkVars, mainVars>>
    /\ UNCHANGED <<cmdVars, restVars, stop>>

\* sleep(exptime) is interrupted (KeyboardInterrupt, the caller cancelled)
TakePictureInterrupt ==
    /\ pc = "exposing"
    /\ pc' = "idle"
    /\ Return("take_picture", "Interrupted")
    /\ UNCHANGED <<variant, gpio, release, procs, shutter, exposure_timer,
                   tether_process, writes, seq>>
    /\ UNCHANGED <<wrkVars, mainVars>>
    /\ UNCHANGED <<cmdVars, restVars, stop>>

\* take_picture up to its sleep, as take_sequence calls it: the timer is
\* set, then the shutter opened; w are the writes of the call so far
SequencePicture(e, o, w) ==
    LET t == IF variant = "gpio" THEN exposure_timer ELSE e
        r == open_shutter(t, o)
    IN
        /\ exposure_timer' = t
        /\ Apply(r)
        /\ writes' = w \o r.w
        /\ IF r.err = "none"
           THEN pc' = "seq_exposing" /\ UNCHANGED result
           ELSE pc' = "idle" /\ Return("take_sequence", r.err)

\* take_sequence(exptime, num_exposures, readout_time) up to the sleep of
\* its first take_picture; with range(0) it returns at once
TakeSequence(e, n, o) ==
    /\ variant \in LibVariants
    /\ pc = "idle"
    /\ seq' = [exptime |-> e, num_exposures |-> n, pic_num |-> 0,
               sleeps |-> 0]
    /\ IF n = 0
       THEN /\ writes' = <<>>
            /\ Return("take_sequence", "none")
            /\ UNCHANGED <<gpio, release, shutter, exposure_timer, pc>>
       ELSE SequencePicture(e, o, <<>>)
    /\ UNCHANGED <<variant, procs, tether_process>>
    /\ UNCHANGED <<wrkVars, mainVars>>
    /\ stop' = NoStop
    /\ UNCHANGED <<cmdVars, restVars>>

\* sleep(exptime) returns inside the sequence: close_shutter, timer reset,
\* then take_sequence's sleep(readout_time) begins
SequencePictureEnd(o) ==
    /\ pc = "seq_exposing"
    /\ LET r == close_shutter(o) IN
        /\ Apply(r)
        /\ writes' = writes \o r.w
        /\ exposure_timer' =
             IF r.err = "none" \/ exposure_timer = NoTimer THEN NoTimer ELSE 0
        /\ IF r.err = "none"
           THEN pc' = "seq_readout" /\ UNCHANGED result
           ELSE pc' = "idle" /\ Return("take_sequence", r.err)
    /\ UNCHANGED <<variant, procs, tether_process, seq>>
    /\ UNCHANGED <<wrkVars, mainVars>>
    /\ UNCHANGED <<cmdVars, restVars, stop>>

\* sleep(readout_time) returns: the next turn of the loop, or the end of it
SequenceReadoutEnd(o) ==
    /\ pc = "seq_readout"
    /\ seq' = [seq EXCEPT !.pic_num = @ + 1, !.sleeps = @ + 1]
    /\ IF seq.pic_num + 1 = seq.num_exposures
       THEN /\ pc' = "idle"
            /\ Return("take_sequence", "none")
            /\ UNCHANGED <<gpio, release, shutter, exposure_timer, writes>>
       ELSE SequencePicture(seq.exptime, o, writes)
    /\ UNCHANGED <<variant, procs, tether_process>>
    /\ UNCHANGED <<wrkVars, mainVars>>
    /\ UNCHANGED <<cmdVars, restVars, stop>>

\* one of the sequence's sleeps is interrupted (KeyboardInterrupt)
SequenceInterrupt ==
    /\ pc \in {"seq_exposing", "seq_readout"}
    /\ pc' = "idle"
    /\ Return("take_sequence", "Interrupted")
    /\ UNCHANGED <<variant, gpio, release, procs, shutter, exposure_timer,
                   tether_process, writes, seq>>
    /\ UNCHANGED <<wrkVars, mainVars>>
    /\ UNCHANGED <<cmdVars, restVars, stop>>

Elapse(t) == IF t > 0 THEN t - 1 ELSE t

\* start_tether: Popen, the handle stored over the old one, sleep(1)
StartTether(po) ==
    /\ variant \in LibVariants
    /\ pc = "idle"
    /\ Unused # {}
    /\ IF po = "ok"
       THEN /\ procs' = [procs EXCEPT ![NewProc] = "live"]
            /\ tether_process' = NewProc
            /\ exposure_timer' = Elapse(exposure_timer)
            /\ Return("start_tether", "none")
       ELSE /\ UNCHANGED <<procs, tether_process, exposure_timer>>
            /\ Return("start_tether", Raised(po))
    /\ writes' = <<>>
    /\ seq' = NoSequence
    /\ UNCHANGED <<variant, gpio, release, pc, shutter>>
    /\ UNCHANGED <<wrkVars, mainVars>>
    /\ stop' = NoStop
    /\ UNCHANGED <<cmdVars, restVars>>

\* what stop_tether does with its subprocess, with every kill() issued
communicate_always_kill(graceful) ==
    [wait |-> IF graceful THEN "exited" ELSE "timeout", kills |-> 1]

\* the try / except of stop_tether: communicate(timeout=...) returns as the
\* subprocess has exited (graceful), or raises TimeoutExpired and the handler
\* issues kill() and communicates again, without a timeout
communicate(graceful) ==
    IF graceful THEN [wait |-> "exited", kills |-> 0]
                ELSE [wait |-> "timeout", kills |-> 1]

\* stop_tether: communicate(timeout=15) returns (graceful) or times out and
\* the process is killed; either way the handle is dropped in the finally
StopTether(graceful) ==
    /\ variant \in LibVariants
    /\ pc = "idle"
    /\ IF tether_process # None
       THEN /\ graceful \/ poll_is_None(tether_process)
            /\ procs' = [procs EXCEPT ![tether_process] = "dead"]
            /\ tether_process' = None
            /\ stop' = communicate(graceful)
       ELSE /\ graceful
            /\ stop' = NoStop
            /\ UNCHANGED <<procs, tether_process>>
    /\ writes' = <<>>
    /\ Return("stop_tether", "none")
    /\ seq' = NoSequence
    /\ UNCHANGED <<variant, gpio, release, pc, shutter, exposure_timer>>
    /\ UNCHANGED <<wrkVars, mainVars>>
    /\ UNCHANGED <<cmdVars, restVars>>

\* ------------------------------------------------------ worker.py (celery)
\* release_shutter up to its wait loop: the timer is created, the pin HIGH
WorkerReleaseShutter(t, e) ==
    /\ variant = "worker"
    /\ task[t].pc = "idle"
    /\ gpio' = [gpio EXCEPT ![CamPin] = HIGH]
    /\ task' = [task EXCEPT ![t] = [pc |-> "exposing", timer |-> e,
                                    w |-> <<HIGH>>]]
    /\ UNCHANGED <<variant, release, procs, result, camVars,
                   camera_is_tethered, process, mainVars>>
    /\ UNCHANGED <<cmdVars, restVars, stop>>

\* one turn of the loop: update_state, timer.sleep(max_sleep)
WorkerExposeWait(t) ==
    /\ task[t].pc = "exposing"
    /\ task[t].timer > 0
    /\ task' = [task EXCEPT ![t].timer = @ - 1]
    /\ UNCHANGED <<variant, gpio, release, procs, result, camVars,
                   camera_is_tethered, process, mainVars>>
    /\ UNCHANGED <<cmdVars, restVars, stop>>

\* the timer has expired: the pin LOW, the task returns
WorkerExposeEnd(t) ==
    /\ task[t].pc = "exposing"
    /\ task[t].timer = 0
    /\ gpio' = [gpio EXCEPT ![CamPin] = LOW]
    /\ task' = [task EXCEPT ![t] = [pc |-> "idle", timer |-> 0,
                                    w |-> Append(@.w, LOW)]]
    /\ Return("release_shutter", "none")
    /\ UNCHANGED <<variant, release, procs, camVars,
                   camera_is_tethered, process, mainVars>>
    /\ UNCHANGED <<cmdVars, restVars, stop>>

\* the task is revoked / hits its time limit inside timer.sleep
WorkerExposeInterrupt(t) ==
    /\ task[t].pc = "exposing"
    /\ task[t].timer > 0
    /\ task' = [task EXCEPT ![t] = [pc |-> "idle", timer |-> 0, w |-> @.w]]
    /\ Return("release_shutter", "Interrupted")
    /\ UNCHANGED <<variant, gpio, release, procs, camVars,
                   camera_is_tethered, process, mainVars>>
    /\ UNCHANGED <<cmdVars, restVars, stop>>

\* start_gphoto2_tether: the flag is tested and set, then Popen
WorkerStartTether(po) ==
    /\ variant = "worker"
    /\ camera_is_tethered \/ Unused # {}
    /\ IF camera_is_tethered
       THEN /\ UNCHANGED <<camera_is_tethered, process, procs>>
            /\ Return("start_tether", "none")
       ELSE /\ camera_is_tethered' = TRUE
            /\ IF po = "ok"
               THEN /\ procs' = [procs EXCEPT ![NewProc] = "live"]
                    /\ process' = NewProc
                    /\ Return("start_tether", "none")
               ELSE /\ UNCHANGED <<procs, process>>
                    /\ Return("start_tether", Raised(po))
    /\ UNCHANGED <<variant, gpio, release, camVars, task, mainVars>>
    /\ stop' = NoStop
    /\ UNCHANGED <<cmdVars, restVars>>

\* stop_gphoto2_tether: process.communicate(timeout=1), kill on timeout,
\* then the flag is cleared; with no process the attribute access raises
WorkerStopTether(graceful) ==
    /\ variant = "worker"
    /\ IF process = None
       THEN /\ graceful
            /\ stop' = NoStop
            /\ Return("stop_tether", "AttributeError")
            /\ UNCHANGED <<procs, camera_is_tethered>>
       ELSE /\ graceful \/ poll_is_None(process)
            /\ procs' = [procs EXCEPT ![process] = "dead"]
            /\ stop' = communicate(graceful)
            /\ camera_is_tethered' = FALSE
            /\ Return("stop_tether", "none")
    /\ UNCHANGED <<variant, gpio, release, camVars, process, task, mainVars>>
    /\ UNCHANGED <<cmdVars, restVars>>

\* gphoto_task / gphoto2_command: subprocess.run is started ...
WorkerCommand(t) ==
    /\ variant = "worker"
    /\ task[t].pc = "idle"
    /\ task' = [task EXCEPT ![t] = [pc |-> "command", timer |-> 0,
                                    w |-> <<>>]]
    /\ UNCHANGED <<variant, gpio, release, procs, result, camVars,
                   camera_is_tethered, process, mainVars>>
    /\ UNCHANGED <<cmdVars, restVars, stop>>

\* ... and ends
WorkerCommandEnd(t, o) ==
    /\ task[t].pc = "command"
    /\ task' = [task EXCEPT ![t] = IdleTask]
    /\ Return("command", Raised(o))
    /\ UNCHANGED <<variant, gpio, release, procs, camVars,
                   camera_is_tethered, process, mainVars>>
    /\ UNCHANGED <<cmdVars, restVars, stop>>

\* ------------------------------------------------------- main.py (HTTP)
\* a take_observation handler ends: its response, or the exception it raised
Respond(e) ==
    result' = [op |-> "take_observation", err |-> e, n |-> 1 - result.n,
               rep |-> FALSE]

\* stop_gphoto_tether: every process of the table is communicated with and,
\* on timeout, killed; the table keeps its entries
stop_gphoto_tether ==
    [p \in ProcIds |-> IF p = processes /\ procs[p] = "live"
                       THEN "dead" ELSE procs[p]]

\* take_observation from the head of its while loop, for the request record
\* rq, up to the next await: either one more turn (is_observing set, one
\* release_shutter task added per pin, await sleep(readout_time)) or the end
\* of the handler (tether stopped, is_observing reset, the response
\* returned; the background tasks run after it)
ObservationLoop(r, rq) ==
    IF rq.pic_num <= rq.num_exposures
    THEN /\ is_observing' = TRUE
         /\ req' = [req EXCEPT ![r] =
                      [rq EXCEPT !.pc = "readout", !.tasks = @ \o PinSeq]]
         /\ UNCHANGED <<procs, result>>
    ELSE /\ procs' = IF rq.use_tether THEN stop_gphoto_tether ELSE procs
         /\ is_observing' = FALSE
         /\ req' = [req EXCEPT ![r] =
                      IF rq.tasks = <<>> THEN IdleReq
                      ELSE [IdleReq EXCEPT !.pc = "background",
                                           !.tasks = rq.tasks]]
         /\ Respond("none")

\* the guard of take_observation
observation_in_progress_never == FALSE

observation_in_progress == is_observing

\* POST /take-observation: the guard; then, with use_tether, start the
\* tether (which raises when there is no gphoto2 binary or Popen fails) and
\* await sleep(1), otherwise straight into the loop
TakeObservation(r, n, ut, po) ==
    /\ variant = "main"
    /\ req[r].pc = "idle"
    /\ ut \/ po = "ok"
    /\ LET rq == [IdleReq EXCEPT !.num_exposures = n, !.use_tether = ut] IN
       IF observation_in_progress
       THEN /\ Respond("rejected")
            /\ UNCHANGED <<procs, mainVars>>
       ELSE IF ut /\ po # "ok"
       THEN /\ Respond("raised")
            /\ UNCHANGED <<procs, mainVars>>
       ELSE IF ut
       THEN /\ Unused # {}
            /\ procs' = [procs EXCEPT ![NewProc] = "live"]
            /\ processes' = NewProc
            /\ req' = [req EXCEPT ![r] = [rq EXCEPT !.pc = "sleep1"]]
            /\ UNCHANGED <<is_observing, result>>
       ELSE /\ ObservationLoop(r, rq)
            /\ UNCHANGED processes
    /\ UNCHANGED <<variant, gpio, release, camVars, wrkVars>>
    /\ UNCHANGED <<cmdVars, restVars, stop>>

\* await sleep(1) / await sleep(readout_time) resumes the handler
SleepDone(r) ==
    /\ req[r].pc \in {"sleep1", "readout"}
    /\ ObservationLoop(r, IF req[r].pc = "readout"
                          THEN [req[r] EXCEPT !.pic_num = @ + 1]
                          ELSE req[r])
    /\ UNCHANGED <<variant, gpio, release, camVars, wrkVars, processes>>
    /\ UNCHANGED <<cmdVars, restVars, stop>>

\* await sleep(...) raises (main.py binds no name sleep: NameError; or the
\* request is cancelled): the handler ends without a response and its
\* background tasks are dropped
SleepRaise(r) ==
    /\ req[r].pc \in {"sleep1", "readout"}
    /\ req' = [req EXCEPT ![r] = IdleReq]
    /\ Respond("raised")
    /\ UNCHANGED <<variant, gpio, release, procs, camVars, wrkVars,
                   is_observing, processes>>
    /\ UNCHANGED <<cmdVars, restVars, stop>>

\* a background task starts: release_shutter(pin, exptime) opens ...
ReleaseShutterOpen(r) ==
    /\ req[r].pc = "background"
    /\ ~req[r].exposing
    /\ gpio' = [gpio EXCEPT ![Head(req[r].tasks)] = HIGH]
    /\ req' = [req EXCEPT ![r].exposing = TRUE]
    /\ UNCHANGED <<variant, release, procs, result, camVars, wrkVars,
                   is_observing, processes>>
    /\ UNCHANGED <<cmdVars, restVars, stop>>

\* ... sleeps exptime and closes; then the next task of the request runs
ReleaseShutterClose(r) ==
    /\ req[r].pc = "background"
    /\ req[r].exposing
    /\ gpio' = [gpio EXCEPT ![Head(req[r].tasks)] = LOW]
    /\ req' = [req EXCEPT ![r] =
                 IF Len(@.tasks) = 1 THEN IdleReq
                 ELSE [@ EXCEPT !.tasks = Tail(@), !.exposing = FALSE]]
    /\ UNCHANGED <<variant, release, procs, result, camVars, wrkVars,
                   is_observing, processes>>
    /\ UNCHANGED <<cmdVars, restVars, stop>>

\* ------------------------------------------- gphoto2 command executors
\* str.split('\n'): the pieces of the text between its line breaks
RECURSIVE split(_)
split(text) ==
    IF \A i \in 1..Len(text) : text[i] # NL
    THEN <<text>>
    ELSE LET k == CHOOSE i \in 1..Len(text) :
                      text[i] = NL /\ \A j \in 1..(i - 1) : text[j] # NL
         IN <<SubSeq(text, 1, k - 1)>> \o split(SubSeq(text, k + 1, Len(text)))

\* line.startswith('Current: ')
startswith(line) == Len(line) >= 1 /\ line[1] = Marker

\* line.replace('Current: ', ''): every occurrence is removed
replace(line) == SelectSeq(line, LAMBDA x : x # Marker)

\* the loop `for line in output' from line i on: `output' is rebound to the
\* value of a line that starts with the marker; run_command then breaks,
\* main.py's gphoto2_command goes on to the last line
RECURSIVE property_loop(_, _, _, _)
property_loop(lines, i, output, brk) ==
    IF i > Len(lines) THEN output
    ELSE IF startswith(lines[i])
    THEN LET found == [kind |-> "str", value |-> replace(lines[i])] IN
         IF brk THEN found ELSE property_loop(lines, i + 1, found, brk)
    ELSE property_loop(lines, i + 1, output, brk)

\* the `output' item of the returned dict
command_output_item(c) ==
    LET lines == [kind |-> "list", value |-> split(c.stdout)] IN
    IF c.impl # "worker" /\ c.return_property
    THEN property_loop(lines.value, 1, lines, c.impl = "run_command")
    ELSE lines

\* completed_proc.returncode >= 0 written as == 0
success_zero(returncode) == returncode = 0

\* the `success' item of the returned dict
success(returncode) == returncode >= 0

\* the executor run on the command c: the exception it raises ("none": it
\* returns) and the dict it returns
gphoto2_command(c) ==
    CASE c.run = "notfound" -> [raised |-> "TypeError", out |-> NoOutput]
      [] c.run = "timeout" -> [raised |-> "TimeoutExpired", out |-> NoOutput]
      [] c.run = "exit" ->
           [raised |-> "none",
            out |-> [returned |-> TRUE,
                     success |-> success(c.returncode),
                     returncode |-> c.returncode,
                     output |-> command_output_item(c)]]

\* one call of an executor (they keep nothing from one call to the next, so
\* a run of this variant is one call); worker.py's takes no return_property
RunCommand(impl, rp, run, rc, text) ==
    /\ variant = "command"
    /\ command = NoCommand
    /\ impl = "worker" => ~rp
    /\ run # "exit" => (rc = 0 /\ text = <<>>)
    /\ LET c == [impl |-> impl, return_property |-> rp, run |-> run,
                 returncode |-> rc, stdout |-> text]
           r == gphoto2_command(c)
       IN
        /\ command' = c
        /\ command_output' = r.out
        /\ Return("gphoto2_command", r.raised)
    /\ UNCHANGED <<variant, gpio, release, procs, camVars, wrkVars, mainVars>>
    /\ UNCHANGED <<restVars, stop>>

\* a caller runs one command, whatever it is and however gphoto2 behaves
ExecuteCommand ==
    /\ variant = "command"
    /\ command = NoCommand
    /\ \E impl \in Impls, rp \in BOOLEAN, run \in Runs, rc \in ReturnCodes,
          text \in Texts : RunCommand(impl, rp, run, rc, text)

\* ------------------------------------- main.py release_shutter, alone
\* the background task of exposure number i (0-based) of an observation
\* whose exptime is x, up to its wait: take_observation passed it
\* observation.exptime as it is; open_shutter(pin), then time.sleep(exptime),
\* which raises TypeError on a list
ReleaseShutterTask(x, i) ==
    /\ exposure = NoExposure
    /\ gpio' = [gpio EXCEPT ![CamPin] = HIGH]
    /\ IF x.kind = "list"
       THEN /\ exposure' = [pc |-> "raised", exptime |-> x, i |-> i,
                            slept |-> NoExposure.slept]
            /\ Return("main_release_shutter", "TypeError")
       ELSE /\ exposure' = [pc |-> "sleeping", exptime |-> x, i |-> i,
                            slept |-> x]
            /\ UNCHANGED result
    /\ UNCHANGED <<variant, release, procs, camVars, wrkVars, mainVars>>
    /\ UNCHANGED <<cmdVars, stop, pic, claims, full_command>>

\* FastAPI runs one scheduled release, whatever its observation asked for
RunReleaseShutterTask ==
    /\ variant = "release"
    /\ exposure = NoExposure
    /\ \E x \in ExpTimeValues, i \in 0..MaxNumExp : ReleaseShutterTask(x, i)

\* time.sleep returns: close_shutter(pin), the task ends
ReleaseShutterTaskEnd ==
    /\ exposure.pc = "sleeping"
    /\ gpio' = [gpio EXCEPT ![CamPin] = LOW]
    /\ exposure' = [exposure EXCEPT !.pc = "done"]
    /\ Return("main_release_shutter", "none")
    /\ UNCHANGED <<variant, release, procs, camVars, wrkVars, mainVars>>
    /\ UNCHANGED <<cmdVars, stop, pic, claims, full_command>>

\* ------------------------------------- main.py _build_gphoto2_command
\* str.split(' '): the pieces of the text between its blanks
RECURSIVE split_blank(_)
split_blank(text) ==
    IF \A i \in 1..Len(text) : text[i] # Space
    THEN <<text>>
    ELSE LET k == CHOOSE i \in 1..Len(text) :
                      text[i] = Space /\ \A j \in 1..(i - 1) : text[j] # Space
         IN <<SubSeq(text, 1, k - 1)>>
              \o split_blank(SubSeq(text, k + 1, Len(text)))

\* the port of a GphotoCommand whose request had the port field f: the
\* class attribute is `None,', the tuple (None,), and pydantic does not
\* validate defaults
GphotoCommand_port == NoneTuple

port_of(f) ==
    CASE f = "omitted" -> GphotoCommand_port
      [] f = "null" -> PyNone
      [] OTHER -> Str(<<f>>)

\* _build_gphoto2_command(command = cmd, port), `which' being shutil.which's
\* answer: [which], '--port' and the port unless port is None, then the
\* command, split at blanks when it has a split method
build_gphoto2_command(cmd, port, which) ==
    LET head == IF port # PyNone THEN <<which, Str(<<"--port">>), port>>
                ELSE <<which>>
        pieces == IF cmd.kind = "str" THEN split_blank(cmd.value)
                  ELSE cmd.value
    IN head \o [i \in 1..Len(pieces) |-> Str(pieces[i])]

\* POST /gphoto up to subprocess.run: the GphotoCommand of the request, its
\* command line
BuildCommand(f, arguments, which) ==
    /\ full_command = NoFullCommand
    /\ full_command' =
         [built |-> TRUE, caller |-> "gphoto2_command", port |-> f,
          arguments |-> arguments,
          argv |-> build_gphoto2_command(arguments, port_of(f), which)]
    /\ UNCHANGED <<variant, gpio, release, procs, result, camVars, wrkVars,
                   mainVars>>
    /\ UNCHANGED <<cmdVars, exposure, stop, pic, claims>>

\* a client posts one command
PostGphoto ==
    /\ variant = "build"
    /\ full_command = NoFullCommand
    /\ \E f \in PortFields, arguments \in Arguments,
          which \in {Str(<<"/usr/bin/gphoto2">>), PyNone} :
            BuildCommand(f, arguments, which)

\* --------------- gphoto2.py / worker.py _build_gphoto2_command, deletion
\* _build_gphoto2_command(command = cmd) of Camera and of the worker:
\* [which, '--port', port], then the command, split at blanks when it has a
\* split method (a list has none: AttributeError, suppressed)
camera_build_gphoto2_command(cmd, port, which) ==
    LET pieces == IF cmd.kind = "str" THEN split_blank(cmd.value)
                  ELSE cmd.value
    IN <<which, Str(<<"--port">>), port>>
         \o [i \in 1..Len(pieces) |-> Str(pieces[i])]

\* the command line a caller builds from the arguments it passes
DeleteCommandLine(caller, arguments, port, which) ==
    /\ full_command = NoFullCommand
    /\ full_command' =
         [built |-> TRUE, caller |-> caller, port |-> port,
          arguments |-> arguments,
          argv |-> camera_build_gphoto2_command(arguments, Str(<<port>>),
                                                which)]
    /\ UNCHANGED <<variant, gpio, release, procs, result, camVars, wrkVars,
                   mainVars>>
    /\ UNCHANGED <<cmdVars, exposure, stop, pic, claims>>

\* Camera.delete_images up to subprocess.run:
\* GphotoCommand(arguments=['--delete-all-files --recurse']), run_command
DeleteImages(which) ==
    /\ variant = "build"
    /\ DeleteCommandLine("delete_images",
                         [kind |-> "list", value |-> <<DeleteText>>],
                         "usb:001,002", which)

\* the worker's gphoto_file_delete up to subprocess.run:
\* gphoto2_command('--delete-all-files --recurse')
GphotoFileDelete(which) ==
    /\ variant = "build"
    /\ DeleteCommandLine("gphoto_file_delete", Str(DeleteText),
                         "usb:001,002", which)

\* ------------------------------------------------- src/gpio.py take_pic
\* POST /take-pics with num_exposures = n: start_gphoto_tether Popens one
\* tether per connected camera (cams of them) and appends it to
\* settings.processes, pic_num = 1, and the first turn of the `while True'
\* loop writes the pin HIGH and sleeps
TakePic(n, cams) ==
    /\ variant = "take_pic"
    /\ pic.pc \in {"idle", "done"}
    /\ pic.tethers + cams <= MaxProcs
    /\ gpio' = [gpio EXCEPT ![CamPin] = HIGH]
    /\ pic' = [pc |-> "high", num_exposures |-> n, pic_num |-> 1,
               cycles |-> 0, tethers |-> pic.tethers + cams]
    /\ UNCHANGED <<variant, release, procs, result, camVars, wrkVars,
                   mainVars>>
    /\ UNCHANGED <<cmdVars, exposure, stop, claims, full_command>>

\* the sleep ends, the pin is written LOW; then the loop's exit test:
\* break when pic_num == num_exposures, else pic_num += 1 and the next turn
\* writes the pin HIGH
TakePicLow ==
    /\ pic.pc = "high"
    /\ gpio' = [gpio EXCEPT ![CamPin] = LOW]
    /\ IF pic.pic_num = pic.num_exposures
       THEN /\ pic' = [pic EXCEPT !.pc = "done", !.cycles = @ + 1]
            /\ Return("take_pic", "none")
       ELSE /\ pic' = [pic EXCEPT !.pc = "low", !.cycles = @ + 1,
                                  !.pic_num = @ + 1]
            /\ UNCHANGED result
    /\ UNCHANGED <<variant, release, procs, camVars, wrkVars, mainVars>>
    /\ UNCHANGED <<cmdVars, exposure, stop, claims, full_command>>

\* the next turn of the loop: the pin HIGH, the sleep
TakePicHigh ==
    /\ pic.pc = "low"
    /\ pic.pic_num <= MaxPicNum
    /\ gpio' = [gpio EXCEPT ![CamPin] = HIGH]
    /\ pic' = [pic EXCEPT !.pc = "high"]
    /\ UNCHANGED <<variant, release, procs, result, camVars, wrkVars,
                   mainVars>>
    /\ UNCHANGED <<cmdVars, exposure, stop, claims, full_command>>

\* ------------------------------------------------------------ environment
\* a tether subprocess ends by itself (camera unplugged, gphoto2 error)
ProcExit(p) ==
    /\ procs[p] = "live"
    /\ procs' = [procs EXCEPT ![p] = "dead"]
    /\ UNCHANGED <<variant, gpio, release, result, camVars, wrkVars,
                   mainVars>>
    /\ UNCHANGED <<cmdVars, restVars, stop>>

\* a second passes between two calls
Tick ==
    /\ pc = "idle"
    /\ TimerRunning(exposure_timer)
    /\ exposure_timer' = exposure_timer - 1
    /\ UNCHANGED <<variant, gpio, release, procs, pc, shutter,
                   tether_process, writes, seq, result, wrkVars, mainVars>>
    /\ UNCHANGED <<cmdVars, restVars, stop>>

Next ==
    \/ \E o \in RunOutcomes : OpenShutter(o)
    \/ \E o \in RunOutcomes : CloseShutter(o)
    \/ \E e \in ExpTimes, o \in RunOutcomes : TakePicture(e, o)
    \/ \E o \in RunOutcomes : TakePictureEnd(o)
    \/ TakePictureInterrupt
    \/ \E e \in ExpTimes, n \in 0..MaxCount, o \in RunOutcomes :
          TakeSequence(e, n, o)
    \/ \E o \in RunOutcomes : SequencePictureEnd(o)
    \/ \E o \in RunOutcomes : SequenceReadoutEnd(o)
    \/ SequenceInterrupt
    \/ \E po \in PopenOutcomes : StartTether(po)
    \/ \E g \in BOOLEAN : StopTether(g)
    \/ \E t \in Tasks, e \in ExpTimes : WorkerReleaseShutter(t, e)
    \/ \E t \in Tasks : WorkerExposeWait(t)
    \/ \E t \in Tasks : WorkerExposeEnd(t)
    \/ \E t \in Tasks : WorkerExposeInterrupt(t)
    \/ \E po \in PopenOutcomes : WorkerStartTether(po)
    \/ \E g \in BOOLEAN : WorkerStopTether(g)
    \/ \E t \in Tasks : WorkerCommand(t)
    \/ \E t \in Tasks, o \in RunOutcomes : WorkerCommandEnd(t, o)
    \/ \E r \in Requests, n \in 0..MaxNumExp, ut \in BOOLEAN,
          po \in PopenOutcomes : TakeObservation(r, n, ut, po)
    \/ \E r \in Requests : SleepDone(r)
    \/ \E r \in Requests : SleepRaise(r)
    \/ \E r \in Requests : ReleaseShutterOpen(r)
    \/ \E r \in Requests : ReleaseShutterClose(r)
    \/ ExecuteCommand
    \/ \E n \in NumExposures, cams \in 0..1 : TakePic(n, cams)
    \/ TakePicLow
    \/ TakePicHigh
    \/ RunReleaseShutterTask
    \/ PostGphoto
    \/ \E which \in {Str(<<"/usr/bin/gphoto2">>), PyNone} : DeleteImages(which)
    \/ \E which \in {Str(<<"/usr/bin/gphoto2">>), PyNone} :
          GphotoFileDelete(which)
    \/ ReleaseShutterTaskEnd
    \/ \E p \in ProcIds : ProcExit(p)
    \/ Tick

\* ================================================================ claims
\* a call of the named operation ends in this step
Ends(op) == result'.n # result.n /\ result'.op = op

\* the handle the program holds on its tether subprocess
Handle ==
    CASE variant \in LibVariants -> tether_process
      [] variant = "worker" -> process
      [] variant = "main" -> processes

\* the shutter is open as the program sees it / as the hardware has it
ShutterOpen ==
    CASE variant = "gphoto2" -> shutter = OPEN
      [] variant = "main" -> \E p \in Pins : gpio[p] = HIGH
      [] OTHER -> gpio[CamPin] = HIGH

HardwareOpen ==
    CASE variant = "gphoto2" -> release = "Immediate"
      [] variant = "main" -> \E p \in Pins : gpio[p] = HIGH
      [] OTHER -> gpio[CamPin] = HIGH

\* C1: for each camera it is never the case that a shutter exposure is in
\* progress (shutter Open) while a tether subprocess is live.
C1_ExposureExcludesTether == ~(ShutterOpen /\ Live # {})

\* C2: open_shutter called while the tether process is live fails with an
\* error and performs no hardware write, whatever the camera variant.
C2_OpenWhileTetheredRejected ==
    [][(Ends("open_shutter") /\ variant \in LibVariants /\ is_tethered)
         => /\ result'.err = "RuntimeError"
            /\ writes' = <<>>
            /\ UNCHANGED <<gpio, release, shutter>>]_vars

\* a take_picture call starts in this step
TakePictureCalled ==
    /\ variant \in LibVariants
    /\ pc = "idle"
    /\ pc' = "exposing" \/ Ends("take_picture")

\* C3: take_picture(exptime) with exptime > 0, on a camera that is not
\* tethered and not exposing, opens the shutter, and when it returns it has
\* closed the shutter exactly once, the shutter is Closed and no exposure is
\* in progress.
C3_TakePictureExposesOnce ==
    [][/\ (/\ TakePictureCalled
           /\ ~is_tethered /\ ~is_exposing
           /\ (variant = "gpio" \/ exposure_timer' > 0))
          => (pc' = "exposing" /\ ShutterOpen')
       /\ (pc = "exposing" /\ Ends("take_picture") /\ result'.err = "none")
          => /\ Len(writes') = 2
             /\ shutter_state' = CLOSED
             /\ ~is_exposing']_vars

\* C4: no exposure call that has opened the shutter and then ended, by
\* returning or by an exception (its wait interrupted, its close raising),
\* leaves the shutter open (pin high / remote release Immediate).
C4_ShutterClosedOnEveryExit ==
    [][((Ends("take_picture") /\ pc = "exposing") \/ Ends("release_shutter"))
         => ~HardwareOpen']_vars

\* C5: at most one tether subprocess is live per camera, and it is the one
\* the program holds the handle of.
C5_OneTetherProcess ==
    /\ Cardinality(Live) <= 1
    /\ \A p \in Live : p = Handle

\* stop_tether, called with a subprocess handle, ends in this step (in
\* main.py: the handler of a tethered observation passes stop_gphoto_tether
\* and returns)
StopTetherEnds ==
    \/ Ends("stop_tether") /\ Handle # None
    \/ /\ Ends("take_observation") /\ result'.err = "none"
       /\ \E r \in Requests :
            /\ req[r].use_tether /\ req[r].pc \in {"sleep1", "readout"}
            /\ req'[r].pc \in {"idle", "background"}

\* C6: after stop_tether ends the camera is not tethered (handle or flag
\* cleared, no running entry in the process table) and no live tether
\* subprocess remains.
C6_StopLeavesNotTethered ==
    [][StopTetherEnds
         => /\ variant \in LibVariants => tether_process' = None
            /\ variant = "worker" => ~camera_is_tethered'
            /\ Live' = {}]_vars

\* the program holds itself for not tethered
NotTethered ==
    CASE variant \in LibVariants -> tether_process = None
      [] variant = "worker" -> ~camera_is_tethered
      [] variant = "main" -> processes = None

\* C7: stop_tether on a camera that is not tethered returns without error
\* and changes no state.
C7_StopWhenNotTetheredIsNoOp ==
    [][(Ends("stop_tether") /\ NotTethered)
         => /\ result'.err = "none"
            /\ UNCHANGED <<gpio, release, procs, camVars, wrkVars,
                           mainVars>>]_vars

\* C8: at most one gphoto2 command subprocess addresses the camera's port at
\* any instant (a second concurrent command is rejected, not run).
C8_OneCommandPerPort ==
    Cardinality({t \in Tasks : task[t].pc = "command"}) <= 1

\* a take_observation request arrives (its handler runs up to its first
\* await, or to its end) in this step
TakeObservationCalled ==
    /\ variant = "main"
    /\ \/ Ends("take_observation") /\ req' = req
       \/ \E r \in Requests :
            req[r].pc = "idle" /\ req'[r].pc \in {"sleep1", "readout"}

\* C9: take_observation called while is_observing is set returns
\* success = false and alters nothing: is_observing, the tether process
\* table, the subprocesses, the scheduled exposures and the pins stay as
\* they are.
C9_RejectedObservationAltersNothing ==
    [][(TakeObservationCalled /\ is_observing)
         => /\ Ends("take_observation") /\ result'.err = "rejected"
            /\ UNCHANGED <<is_observing, processes, procs, req, gpio>>]_vars

\* C9 witness: a request has been rejected while another one sits in its
\* readout sleep with its exposures scheduled.
C9_Witness ==
    /\ variant = "main"
    /\ result.err = "rejected"
    /\ is_observing
    /\ \E r \in Requests : req[r].pc = "readout" /\ req[r].tasks # <<>>

OpenOrCloseRuns ==
    \/ Ends("open_shutter")
    \/ Ends("close_shutter")
    \/ TakePictureCalled
    \/ pc = "exposing" /\ Ends("take_picture") /\ result'.err # "Interrupted"
    \/ pc \in {"idle", "seq_readout"} /\ pc' = "seq_exposing"
    \/ pc = "seq_exposing" /\ pc' = "seq_readout"
    \/ /\ pc \in {"idle", "seq_readout", "seq_exposing"}
       /\ Ends("take_sequence") /\ result'.err \notin {"none", "Interrupted"}

\* the last call that ended was a close_shutter that returned (by itself or
\* as the last step of take_picture) and no take_picture runs since
ClosedSuccessfully ==
    /\ variant \in LibVariants
    /\ pc = "idle"
    /\ result.err = "none"
    /\ result.op \in {"close_shutter", "take_picture"}

\* C11: shutter_state changes only in a step of open_shutter or
\* close_shutter, and after a close_shutter call has returned it reads
\* CLOSED in every state up to the next open_shutter call.
C11_ShutterStateTransitions ==
    [][/\ (variant \in LibVariants /\ shutter_state' # shutter_state)
          => OpenOrCloseRuns
       /\ ClosedSuccessfully' => shutter_state' = CLOSED
       /\ (ClosedSuccessfully /\ ~OpenOrCloseRuns)
          => shutter_state' = CLOSED]_vars

\* C11 witness: the shutter was open, close_shutter has returned and
\* shutter_state reads CLOSED, on the remote-release camera whose command
\* did not reach the camera (the setting is still Immediate).
C11_Witness ==
    /\ variant = "gphoto2"
    /\ result.op = "close_shutter" /\ result.err = "none" /\ ~result.rep
    /\ release = "Immediate"
    /\ shutter_state = CLOSED

\* C12: a gphoto2 command whose subprocess exceeds the timeout ends for its
\* caller as a returned result with success = false, not as an exception.
C12_TimeoutIsStructuredFailure ==
    [][(Ends("gphoto2_command") /\ command'.run = "timeout")
         => /\ result'.err = "none"
            /\ command_output'.returned
            /\ ~command_output'.success]_vars

\* a call ends that found no gphoto2 binary: shutil.which returned None and
\* subprocess.run / Popen raised on the None argument
ToolNotFound ==
    /\ result'.n # result.n
    /\ result'.err = "TypeError"

\* C13: an operation that finds no gphoto2 binary fails before any
\* subprocess is spawned and leaves the camera state as it was.
C13_ToolNotFoundChangesNothing ==
    [][ToolNotFound
         => UNCHANGED <<procs, gpio, release, shutter, tether_process,
                        camera_is_tethered, process, is_observing,
                        processes>>]_vars

\* a gphoto2 command ends whose subprocess has exited
CommandExited == Ends("gphoto2_command") /\ command'.run = "exit"

\* C14: for every exit code of the subprocess the executor returns a result
\* whose returncode is that exit code and whose success is true exactly
\* when the exit code is non-negative.
C14_SuccessIffNonNegative ==
    [][CommandExited
         => /\ result'.err = "none"
            /\ command_output'.returned
            /\ command_output'.returncode = command'.returncode
            /\ command_output'.success <=> command'.returncode >= 0]_vars

\* C14 witness: a command whose subprocess exited with status 1 has
\* returned success = true, returncode = 1.
C14_Witness ==
    /\ command.impl \in Impls
    /\ command.run = "exit" /\ command.returncode = 1
    /\ command_output.returned
    /\ command_output.success /\ command_output.returncode = 1

\* the lines of the command's stdout that begin with the property marker
MarkerLines(c) ==
    LET lines == split(c.stdout) IN
    {lines[i] : i \in {j \in 1..Len(lines) : startswith(lines[j])}}

\* C15: a command run with return_property = true whose stdout has a line
\* beginning with "Current: " returns as output a string, the text that
\* follows the marker on such a line, not the list of lines.
C15_PropertyValueReturned ==
    [][(/\ CommandExited
        /\ command'.impl \in {"run_command", "main"}
        /\ command'.return_property
        /\ MarkerLines(command') # {})
         => /\ command_output'.output.kind = "str"
            /\ \E line \in MarkerLines(command') :
                 command_output'.output.value = Tail(line)]_vars

\* the hardware writes w are count exposures one after another: an open,
\* then a close, count times
ExposuresInTurn(w, count) ==
    /\ Len(w) = 2 * count
    /\ \A i \in 1..Len(w) :
         w[i] = IF variant = "gphoto2"
                THEN (IF i % 2 = 1 THEN "Immediate" ELSE "Off")
                ELSE (IF i % 2 = 1 THEN ON ELSE OFF)

\* C16: a take_sequence(exptime, count, readout_delay) call that returns has
\* performed exactly count exposures, each an open followed by a close, one
\* after another, and has slept readout_delay count - 1 times (between
\* consecutive exposures, not after the last).
C16_SequenceSleepsBetweenExposures ==
    [][(Ends("take_sequence") /\ result'.err = "none")
         => /\ ExposuresInTurn(writes', seq'.num_exposures)
            /\ seq'.num_exposures > 0
               => seq'.sleeps = seq'.num_exposures - 1]_vars

\* the request r is past the guard of take_observation, suspended in one of
\* the handler's awaits
InHandler(r) == req[r].pc \in {"sleep1", "readout"}

\* the observation of request r is cancelled in this step: its handler is
\* ended at the await it is suspended in (main.py has no other cancel)
Cancelled(r) ==
    /\ InHandler(r)
    /\ req'[r].pc = "idle"
    /\ Ends("take_observation") /\ result'.err = "raised"

\* C17: cancelling an observation force-closes no shutter (the pins stay as
\* they are), starts no further exposure of that observation (none of its
\* releases stays scheduled) and returns the sequencer to Idle
\* (is_observing is false).
C17_CancelReturnsToIdle ==
    [][\A r \in Requests :
         Cancelled(r) => /\ UNCHANGED gpio
                         /\ req'[r].tasks = <<>>
                         /\ ~is_observing']_vars

\* the handler of the tethered observation r passes stop_gphoto_tether and
\* returns in this step
TetherStopped(r) ==
    /\ InHandler(r) /\ req[r].use_tether
    /\ req'[r].pc \in {"idle", "background"}
    /\ Ends("take_observation") /\ result'.err = "none"

C20_ObservingEventuallyEnds == is_observing ~> ~is_observing

\* a shutter release scheduled by an observation is pending or in progress
ReleasePending ==
    /\ variant = "main"
    /\ \/ \E r \in Requests : req[r].tasks # <<>>
       \/ \E p \in Pins : gpio[p] = HIGH

ShutterCallReturned ==
    /\ variant = "gphoto2"
    /\ Ends("open_shutter") \/ Ends("close_shutter") \/ Ends("take_picture")
    /\ result'.err = "none"
    /\ writes' # <<>>

\* C22: a failed device command of open_shutter / close_shutter is reported
\* to the caller: when the call returns without an error the command has
\* taken effect, so shutter_state is recorded as OPEN exactly when the
\* camera's remote release is set.
C22_CommandFailureReported ==
    [][ShutterCallReturned
         => (shutter_state' = OPEN <=> release' = "Immediate")]_vars

\* the duration exposure number i of an observation with exptime x is to be
\* exposed for
DurationOf(x, i) ==
    IF x.kind = "list" THEN x.value[(i % Len(x.value)) + 1] ELSE x.value

\* C23: the release of exposure number i of an observation waits for a
\* single duration: exptime itself when it is a number, and
\* durations[i mod len(durations)] when it is a list.
C23_ExposureUsesItsDuration ==
    [][(exposure.pc = "none" /\ exposure'.pc # "none")
         => /\ exposure'.pc = "sleeping"
            /\ exposure'.slept.kind = "float"
            /\ exposure'.slept.value
                 = DurationOf(exposure'.exptime, exposure'.i)]_vars

\* stop_tether / stop_gphoto2_tether ends in this step, having been called
\* with a subprocess handle
StopCallEnds ==
    /\ variant \in LibVariants \cup {"worker"}
    /\ Ends("stop_tether")
    /\ Handle # None

\* C24: stop_tether issues kill() only when its one bounded wait for the
\* subprocess has timed out, and then once; when the subprocess exits
\* within the wait no kill is issued; the call ends with the subprocess
\* ended and touches no other subprocess.
C24_KillOnlyAfterGraceTimeout ==
    [][StopCallEnds
         => /\ stop'.wait \in {"exited", "timeout"}
            /\ stop'.wait = "timeout" => stop'.kills = 1 /\ Handle \in Live
            /\ stop'.wait = "exited" => stop'.kills = 0
            /\ Handle \notin Live'
            /\ \A p \in ProcIds \ {Handle} : procs'[p] = procs[p]]_vars

\* a stop_tether has found its subprocess ended within the wait, and issued
\* no kill
C24_Witness ==
    /\ variant = "gphoto2"
    /\ result.op = "stop_tether"
    /\ stop = [wait |-> "exited", kills |-> 0]
    /\ \E p \in ProcIds : procs[p] = "dead"

\* C25: in the worker, camera.is_tethered is true only while a tether
\* subprocess handle exists (app_settings.process is not None).
C25_TetheredHasProcess ==
    (variant = "worker" /\ camera_is_tethered) => process # None

\* max(num_exposures, 0)
CyclesAsked(n) == IF n > 0 THEN n ELSE 0

\* C26: take_pic performs max(num_exposures, 0) HIGH / LOW cycles of the
\* shutter pin and ends: during the call no more cycles than that have been
\* made, and the call that has ended made exactly that many.
C26_TakePicCycles ==
    variant = "take_pic"
      => /\ pic.cycles <= CyclesAsked(pic.num_exposures)
         /\ pic.pc = "done" => pic.cycles = CyclesAsked(pic.num_exposures)

\* C27: every GPIO line a program drives has been claimed / configured as
\* output exactly once, and this before the line is written or read.
C27_PinClaimedOnce ==
    \A p \in Pins :
        /\ p \in UsedPins(variant) => claims[p] = 1
        /\ gpio[p] # OFF => claims[p] = 1

\* the release_shutter task t of the worker ends in this step
ReleaseEnds(t) ==
    /\ variant = "worker"
    /\ Ends("release_shutter")
    /\ task[t].pc = "exposing"
    /\ task'[t].pc = "idle"

\* C28: a release_shutter call has written the shutter pin exactly twice
\* when it ends, HIGH and then LOW, whatever the number of turns of its
\* wait loop, and the LOW was written with the exposure timer expired.
C28_ReleaseWritesHighThenLow ==
    [][\A t \in Tasks :
          ReleaseEnds(t) => /\ task'[t].w = <<HIGH, LOW>>
                            /\ task[t].timer = 0]_vars

\* the same for the calls whose wait is not cut short
C28_UninterruptedRelease ==
    [][\A t \in Tasks :
          (ReleaseEnds(t) /\ result'.err = "none")
            => /\ task'[t].w = <<HIGH, LOW>>
               /\ task[t].timer = 0]_vars

\* the arguments of a command as the elements they are to give
GivenArguments(arguments) ==
    LET pieces == IF arguments.kind = "str" THEN split_blank(arguments.value)
                  ELSE arguments.value
    IN [i \in 1..Len(pieces) |-> Str(pieces[i])]

\* C29: the command line is the tool, then '--port' and the port only if
\* the GphotoCommand was created with a port, then the arguments: without a
\* port no element is '--port', with port p the elements after the tool are
\* exactly '--port', p.
C29_PortFlagOnlyWithPort ==
    full_command.built
      => LET argv == full_command.argv
             given == GivenArguments(full_command.arguments)
         IN IF full_command.port \in {"omitted", "null"}
            THEN /\ \A i \in 1..Len(argv) : argv[i] # Str(<<"--port">>)
                 /\ SubSeq(argv, 2, Len(argv)) = given
            ELSE /\ Len(argv) >= 3
                 /\ argv[2] = Str(<<"--port">>)
                 /\ argv[3] = Str(<<full_command.port>>)
                 /\ SubSeq(argv, 4, Len(argv)) = given

\* take_picture is called on a camera that is tethered or exposing, and its
\* open_shutter raises
TakePictureRejected ==
    /\ variant = "gphoto2"
    /\ pc = "idle"
    /\ is_tethered \/ is_exposing
    /\ Ends("take_picture")
    /\ result'.err = "RuntimeError"

\* C30: a take_picture whose open_shutter is rejected leaves the camera as
\* it was: exposure_timer is not left set by the call, is_exposing is false
\* afterwards unless it was true before, shutter_state is unchanged.
C30_RejectedTakePictureLeavesState ==
    [][TakePictureRejected
         => /\ exposure_timer' \in {exposure_timer, NoTimer}
            /\ is_exposing' => is_exposing
            /\ shutter_state' = shutter_state
            /\ UNCHANGED <<release, gpio>>]_vars

\* C31: both deletions of the camera's files give gphoto2 the arguments
\* '--delete-all-files' and '--recurse' as two separate elements of the
\* command line, right after the tool, '--port' and the port, whether the
\* caller wrote them as one string or as a list.
C31_DeleteArgumentsSeparate ==
    (full_command.built
       /\ full_command.caller \in {"delete_images", "gphoto_file_delete"})
      => LET argv == full_command.argv IN
           /\ Len(argv) = 5
           /\ argv[2] = Str(<<"--port">>)
           /\ argv[3] = Str(<<full_command.port>>)
           /\ argv[4] = Str(<<DeleteAll>>)
           /\ argv[5] = Str(<<Recurse>>)

\* the other of the two executors that take return_property
OtherExecutor(impl) == IF impl = "run_command" THEN "main" ELSE "run_command"

\* C32: for every stdout, Camera.run_command and the HTTP gphoto2_command
\* return the same `output' when return_property is true: what the executor
\* that ran has returned is what the other one returns for the same
\* command.
C32_ExecutorsAgreeOnProperty ==
    (/\ variant = "command"
     /\ command_output.returned
     /\ command.impl \in {"run_command", "main"}
     /\ command.return_property)
      => command_output.output
           = command_output_item(
               [command EXCEPT !.impl = OtherExecutor(command.impl)])

Spec == Init /\ [][Next]_vars

\* the event loop resumes every suspended handler (its sleep returns or
\* raises) and the thread pool runs every background task of a request
\* whose response has been sent
FairSpec ==
    /\ Spec
    /\ \A r \in Requests : WF_vars(SleepDone(r) \/ SleepRaise(r))
    /\ \A r \in Requests :
         WF_vars(ReleaseShutterOpen(r) \/ ReleaseShutterClose(r))

====
